---- MODULE Spec2Model ----
(***************************************************************************)
(* A model of the Agent-Framework core:                                    *)
(*   - the graph workflow interpreter (framework/graph.py, mini/node.py):  *)
(*     BuildSpec (the build operations) and GraphSpec (the traversal);     *)
(*   - the agent tool-calling loop (mini/agent_executor.py, mini/utils.py),*)
(*     specification AgentSpec.                                            *)
(* Python's None is the string "None"; a raised exception is recorded in   *)
(* an outcome variable instead of unwinding a stack.                       *)
(***************************************************************************)
EXTENDS Integers, Sequences, FiniteSets, TLC

VARIABLES
    \* ---- Graph (framework/graph.py) ----
    nodes,              \* Graph.nodes: list of node names
    next,               \* Node.next of every node object, by name
    transitions,        \* Node.transitions of every node object, by name
    edges,              \* Graph.edges: informational list of <<from, to>>
    start_node,         \* Graph.start_node
    end_nodes,          \* Graph.end_nodes: NoEndNodes or a list of names
    update_mechanisms,  \* keys of Graph.update_mechanisms (append_to_state)
    state,              \* Graph.state
    g_pc,               \* "build" | "run" | "done"
    current_node,       \* invoke_next_node: current_node
    depth,              \* invoke_next_node: depth
    max_depth,          \* invoke_next_node: max_depth (NoMaxDepth or a number)
    executed,           \* log of Node.invoke calls of this traversal, in order:
                        \* [node, kind ("action" | "discriminator"), ret]
    g_outcome,          \* how Graph.invoke ended: "none" | "returned" | an error
    build_error         \* the exception of the last build operation, or "none"

gvars == <<nodes, next, transitions, edges, start_node, end_nodes,
           update_mechanisms, state, g_pc, current_node, depth, max_depth,
           executed, g_outcome, build_error>>

VARIABLES
    \* ---- AgentExecutor (mini/agent_executor.py) ----
    name,               \* self.name: "unset" until something assigns it
    tools,              \* self.tools: [isNone, names]
    tool_choices,       \* self.tool_choices: list of names (None is the empty list)
    structured_output,  \* self.structured_output: "None" | "pydantic" | "text"
    keeps_history,      \* self.messages is not None
    chat_history,       \* the list self.messages refers to, or invoke's local list
    temp_called_tools,  \* self.temp_called_tools
    a_pc,               \* "idle", the model call invoke is blocked in, or "done"
    frames,             \* parsed_response of every active _handle_tool_calls call
    parsed_response,    \* invoke's parsed_response
    num_tries,          \* invoke's num_tries
    callbacks,          \* whether invoke was given a CallbackManager
    a_result,           \* what invoke returned or raised: [kind, value]
    history_before,     \* chat_history as it was when invoke was called
    trace,              \* what this invoke did, in order (one string per event)
    earlier             \* how the earlier invoke of this executor ended: the
                        \* kind of its result, "none" when there was none

avars == <<name, tools, tool_choices, structured_output, keeps_history,
           chat_history, temp_called_tools, a_pc, frames, parsed_response,
           num_tries, callbacks, a_result, history_before, trace, earlier>>

VARIABLES
    \* ---- extract_json called on its own (mini/utils.py) ----
    x_input,            \* how the text passed to extract_json is written
    x_output,           \* what extract_json returned
    x_pc                \* "idle" | "ready" | "done"

xvars == <<x_input, x_output, x_pc>>

VARIABLES
    \* ---- one invocation of a runnable (framework/runnable.py) ----
    r_runnable,         \* the runnable invoke is called on
    r_input,            \* input_data
    r_callbacks,        \* the callbacks argument: [managed, handlers]
    r_result,           \* how invoke ended: [ok, out, events, called]
    r_pc                \* "idle" | "ready" | "done"

rvars == <<r_runnable, r_input, r_callbacks, r_result, r_pc>>

VARIABLES
    \* ---- one Tool made from a function (framework/tool.py) ----
    t_func,             \* the parameters of the function, in declaration order
    tool_json,          \* the schema create_tool derived
    t_pc                \* "idle" | "ready" | "done"

tvars == <<t_func, tool_json, t_pc>>

None == "None"

\* max_depth: Optional[int] = None
NoMaxDepth == -1

\* end_nodes: Optional[List[Node]] = None
NoEndNodes == <<None>>

(***************************************************************************)
(* Bounds of the model.                                                    *)
(***************************************************************************)
\* largest max_depth passed to Graph.invoke
MaxDepth == 3
\* recursion depth at which a traversal without max_depth is cut off
MaxRecursion == MaxDepth + 1
\* number of build operations applied to one graph
MaxBuildOps == 5

(***************************************************************************)
(* Nodes.  A node object is identified by its name (Node.__eq__).          *)
(***************************************************************************)
CallerNodes == {"A", "B", "T"}

NodeOrder == <<"A", "B", "T">>

\* f"{source_node.name}_conditional"
ConditionalName(n) ==
    CASE n = "A" -> "A_conditional"
      [] n = "B" -> "B_conditional"
      [] n = "T" -> "T_conditional"

SynthNodes == {ConditionalName(n) : n \in CallerNodes}

AllNodes == CallerNodes \cup SynthNodes

\* current_node.name.endswith("_conditional")
EndsWithConditional(n) == n \in SynthNodes

\* values a discriminator function may return
Keys == {"go", "stop", "other"}

Absent == "Absent"

NoTransitions == [k \in Keys |-> Absent]

\* the order in which a target_nodes dictionary lists its keys
KeyOrder == <<"go", "stop", "other">>

\* the target_nodes dictionaries a caller passes to add_conditional_edges
TableNames == {"table1", "table2"}

TableOf(t) ==
    CASE t = "table1" -> [go |-> "A", stop |-> "T", other |-> Absent]
      [] t = "table2" -> [go |-> "B", stop |-> Absent, other |-> Absent]

\* the arguments a caller passes to set_end_nodes
EndNodeChoices == {"empty", "T"}

EndNodesOf(e) == IF e = "T" THEN <<"T">> ELSE <<>>

Range(s) == {s[i] : i \in 1..Len(s)}

\* the action of a caller node: the partial update it returns
\* (keys: the keys of the returned dict; isNone: the action returned None)
NoneUpdate == [isNone |-> TRUE, keys |-> {}, messages |-> <<>>, last |-> None]

ActionOf(n) ==
    CASE n = "A" -> [isNone |-> FALSE, keys |-> {"messages"},
                     messages |-> <<"A">>, last |-> None]
      [] n = "B" -> [isNone |-> FALSE, keys |-> {"messages", "last"},
                     messages |-> <<"B">>, last |-> "B"]
      [] OTHER   -> NoneUpdate

InitialState == [messages |-> <<>>, last |-> None]

(***************************************************************************)
(* Graph.update_state and the merge of a partial update                    *)
(***************************************************************************)
\* append_to_state: state[key].extend(value)
append_to_state(st, value) == [st EXCEPT !.messages = st.messages \o value]

UpdateMessagesOverwriting(st, value) == [st EXCEPT !.messages = value]

\* if key in self.update_mechanisms: the mechanism, else self.state[key] = value
UpdateMessages(st, value) ==
    IF "messages" \in update_mechanisms
    THEN append_to_state(st, value)
    ELSE [st EXCEPT !.messages = value]

\* for key, value in state_updates.items(): self.update_state(key, value)
MergeUpdates(st, upd) ==
    IF upd.isNone THEN st
    ELSE LET s1 == IF "messages" \in upd.keys
                   THEN UpdateMessages(st, upd.messages) ELSE st
         IN  IF "last" \in upd.keys THEN [s1 EXCEPT !.last = upd.last] ELSE s1

(***************************************************************************)
(* Build operations, as functions of the graph G they are applied to.      *)
(* G.build_error is the exception the operation raised, "none" if none.    *)
(***************************************************************************)
\* Graph.__init__
EmptyGraph ==
    [nodes |-> <<>>,
     next |-> [n \in AllNodes |-> None],
     transitions |-> [n \in AllNodes |-> NoTransitions],
     edges |-> <<>>,
     start_node |-> None,
     end_nodes |-> NoEndNodes,
     build_error |-> "none"]

Raise(G, e) == [G EXCEPT !.build_error = e]

Ok(G) == [G EXCEPT !.build_error = "none"]

\* if node not in self.nodes: self.nodes.append(node)
AddNode(G, n) ==
    Ok(IF n \in Range(G.nodes) THEN G ELSE [G EXCEPT !.nodes = Append(@, n)])

AddEdgeOverwriting(G, a, b) ==
    IF a \notin Range(G.nodes) \/ b \notin Range(G.nodes)
    THEN Raise(G, "ValueError: Node not in graph.")
    ELSE Ok([G EXCEPT !.next[a] = b, !.edges = Append(@, <<a, b>>)])

AddEdge(G, a, b) ==
    IF a \notin Range(G.nodes) \/ b \notin Range(G.nodes)
    THEN Raise(G, "ValueError: Node not in graph.")
    ELSE IF G.next[a] = None
    THEN Ok([G EXCEPT !.next[a] = b, !.edges = Append(@, <<a, b>>)])
    ELSE Raise(G, "ValueError: Node already has a next node.")

\* for key, value in target_nodes.items(): self.edges.append((conditional, value.name))
RECURSIVE TargetEdges(_, _, _)
TargetEdges(c, table, i) ==
    IF i > Len(KeyOrder) THEN <<>>
    ELSE (IF table[KeyOrder[i]] = Absent THEN <<>>
          ELSE <<(<<c, table[KeyOrder[i]]>>)>>)
         \o TargetEdges(c, table, i + 1)

AddConditionalEdges(G, src, table) ==
    IF src \notin Range(G.nodes)
    THEN Raise(G, "ValueError: Source node not in graph.")
    ELSE LET c  == ConditionalName(src)
             G1 == AddNode(G, c)
             G2 == AddEdge(G1, src, c)
         IN  IF G2.build_error # "none" THEN G2
             ELSE [G2 EXCEPT !.transitions[c] = table,
                             !.edges = @ \o <<(<<src, c>>)>> \o TargetEdges(c, table, 1)]

SetStartNode(G, n) ==
    IF n \notin Range(G.nodes)
    THEN Raise(G, "ValueError: Node not in graph")
    ELSE Ok([G EXCEPT !.start_node = n])

\* nodes: a list of nodes (a single Node is wrapped into a list first)
SetEndNodes(G, ns) ==
    IF \E i \in 1..Len(ns) : ns[i] \notin Range(G.nodes)
    THEN Raise(G, "ValueError: Node not in graph")
    ELSE Ok([G EXCEPT !.end_nodes = ns])

(***************************************************************************)
(* The graph object as the state of the model                              *)
(***************************************************************************)
TheGraph ==
    [nodes |-> nodes, next |-> next, transitions |-> transitions, edges |-> edges,
     start_node |-> start_node, end_nodes |-> end_nodes, build_error |-> build_error]

GraphIs(G) ==
    /\ nodes = G.nodes
    /\ next = G.next
    /\ transitions = G.transitions
    /\ edges = G.edges
    /\ start_node = G.start_node
    /\ end_nodes = G.end_nodes
    /\ build_error = G.build_error

GraphBecomes(G) ==
    /\ nodes' = G.nodes
    /\ next' = G.next
    /\ transitions' = G.transitions
    /\ edges' = G.edges
    /\ start_node' = G.start_node
    /\ end_nodes' = G.end_nodes
    /\ build_error' = G.build_error

buildVars == <<nodes, next, transitions, edges, start_node, end_nodes, build_error>>

travVars == <<update_mechanisms, state, g_pc, current_node, depth, max_depth,
              executed, g_outcome, avars, xvars, rvars, tvars>>

TraversalIdle ==
    /\ update_mechanisms = {"messages"}
    /\ state = InitialState
    /\ g_pc = "build"
    /\ current_node = None
    /\ depth = 0
    /\ max_depth = NoMaxDepth
    /\ executed = <<>>
    /\ g_outcome = "none"

\* no runnable is invoked on its own
RunnableIdle ==
    /\ r_runnable = None
    /\ r_input = None
    /\ r_callbacks = None
    /\ r_result = None
    /\ r_pc = "idle"

ToolIdle ==
    /\ t_func = None
    /\ tool_json = None
    /\ t_pc = "idle"

\* extract_json is not called on its own
ExtractIdle ==
    /\ x_input = None
    /\ x_output = None
    /\ x_pc = "idle"

\* no AgentExecutor takes part in the graph specifications
NoResponse == [none |-> TRUE]

NoResult == [kind |-> "none", value |-> None]

AgentUnused ==
    /\ name = "unset"
    /\ tools = [isNone |-> TRUE, names |-> <<>>]
    /\ tool_choices = <<>>
    /\ structured_output = None
    /\ keeps_history = FALSE
    /\ chat_history = <<>>
    /\ temp_called_tools = <<>>
    /\ a_pc = "idle"
    /\ frames = <<>>
    /\ parsed_response = NoResponse
    /\ num_tries = 0
    /\ callbacks = FALSE
    /\ a_result = NoResult
    /\ history_before = <<>>
    /\ trace = <<>>
    /\ earlier = "none"

(***************************************************************************)
(* BuildSpec: the build operations in any order                            *)
(***************************************************************************)
\* last_op: the operation applied by the last step, as <<name, arguments...>>
\* ops: the number of build operations applied so far
VARIABLES last_op, ops

\* the caller adds its nodes in the order NodeOrder (adding one again is allowed)
MayAdd(n) ==
    \/ n \in Range(nodes)
    \/ \E i \in 1..Len(NodeOrder) :
          /\ NodeOrder[i] = n
          /\ \A j \in 1..(i - 1) : NodeOrder[j] \in Range(nodes)

Applied(op) ==
    /\ ops < MaxBuildOps
    /\ ops' = ops + 1
    /\ last_op' = op

add_node(n) ==
    /\ MayAdd(n)
    /\ GraphBecomes(AddNode(TheGraph, n))
    /\ Applied(<<"add_node", n, None>>)
    /\ UNCHANGED travVars

add_edge(a, b) ==
    /\ GraphBecomes(AddEdge(TheGraph, a, b))
    /\ Applied(<<"add_edge", a, b>>)
    /\ UNCHANGED travVars

add_conditional_edges(src, t) ==
    /\ GraphBecomes(AddConditionalEdges(TheGraph, src, TableOf(t)))
    /\ Applied(<<"add_conditional_edges", src, t>>)
    /\ UNCHANGED travVars

set_start_node(n) ==
    /\ GraphBecomes(SetStartNode(TheGraph, n))
    /\ Applied(<<"set_start_node", n, None>>)
    /\ UNCHANGED travVars

set_end_nodes(e) ==
    /\ GraphBecomes(SetEndNodes(TheGraph, EndNodesOf(e)))
    /\ Applied(<<"set_end_nodes", e, None>>)
    /\ UNCHANGED travVars

BuildInit ==
    /\ GraphIs(EmptyGraph)
    /\ TraversalIdle
    /\ last_op = <<"__init__", None, None>>
    /\ ops = 0
    /\ ExtractIdle
    /\ RunnableIdle
    /\ ToolIdle
    /\ AgentUnused

BuildNext ==
    \/ \E n \in CallerNodes : add_node(n)
    \* the source is a node of the caller or the synthesized node of an earlier
    \* add_conditional_edges, which the caller holds as source.next
    \/ \E a \in CallerNodes \cup SynthNodes, b \in CallerNodes : add_edge(a, b)
    \/ \E src \in CallerNodes, t \in TableNames : add_conditional_edges(src, t)
    \/ \E n \in CallerNodes : set_start_node(n)
    \/ \E e \in EndNodeChoices : set_end_nodes(e)

bvars == <<gvars, last_op, ops, avars, xvars, rvars, tvars>>

BuildSpec == BuildInit /\ [][BuildNext]_bvars

(***************************************************************************)
(* Traversal: Graph.invoke and Graph.invoke_next_node                      *)
(***************************************************************************)
GraphInvokeUnchecked(st, md) ==
    /\ g_pc = "build"
    /\ state' = st
    /\ max_depth' = md
    /\ executed' = <<>>
    /\ depth' = 0
    /\ IF start_node = None
       THEN /\ g_pc' = "done"
            /\ g_outcome' = "ValueError: Start node not set."
            /\ UNCHANGED current_node
       ELSE /\ g_pc' = "run"
            /\ g_outcome' = "none"
            /\ current_node' = start_node
    /\ UNCHANGED <<buildVars, update_mechanisms, last_op, ops, avars, xvars, rvars, tvars>>

\* Graph.invoke up to its call of invoke_next_node
GraphInvoke(st, md) ==
    /\ g_pc = "build"
    /\ state' = st
    /\ max_depth' = md
    /\ executed' = <<>>
    /\ depth' = 0
    /\ IF start_node = None
       THEN /\ g_pc' = "done"
            /\ g_outcome' = "ValueError: Start node not set."
            /\ UNCHANGED current_node
       ELSE IF end_nodes = NoEndNodes
       THEN /\ g_pc' = "done"
            /\ g_outcome' = "ValueError: End node not set."
            /\ UNCHANGED current_node
       ELSE /\ g_pc' = "run"
            /\ g_outcome' = "none"
            /\ current_node' = start_node
    /\ UNCHANGED <<buildVars, update_mechanisms, last_op, ops, avars, xvars, rvars, tvars>>

StopsLate(n, d) ==
    \/ n \in Range(end_nodes)
    \/ (max_depth # NoMaxDepth /\ d > max_depth)

\* if current_node in self.end_nodes or (max_depth is not None and depth >= max_depth)
StopsHere(n, d) ==
    \/ n \in Range(end_nodes)
    \/ (max_depth # NoMaxDepth /\ d >= max_depth)

\* the log entry of a node action / of a discriminator evaluation returning key
Acted(n) == [node |-> n, kind |-> "action", ret |-> None]

Discriminated(n, key) == [node |-> n, kind |-> "discriminator", ret |-> key]

\* if next_node_name in current_node.transitions: the target, else Absent
ResolveDefaulting(n, key) ==
    IF transitions[n][key] # Absent THEN transitions[n][key]
    ELSE transitions[n][KeyOrder[1]]

ResolveFirstEntry(n, key) == transitions[n][KeyOrder[1]]

ResolveTransition(n, key) == transitions[n][key]

\* a traversal that fails at a node without a next node
RunNodeNeedingNext(n, log) ==
    /\ executed' = Append(log, Acted(n))
    /\ state' = MergeUpdates(state, ActionOf(n))
    /\ IF next[n] # None
       THEN /\ current_node' = next[n]
            /\ depth' = depth + 1
            /\ UNCHANGED <<g_pc, g_outcome>>
       ELSE /\ g_pc' = "done"
            /\ g_outcome' = "ValueError: End node not reached."
            /\ UNCHANGED <<current_node, depth>>

\* lines 112-127: invoke node n, merge its update, go on to n.next;
\* log is the log of invocations up to here
RunNode(n, log) ==
    /\ executed' = Append(log, Acted(n))
    /\ state' = MergeUpdates(state, ActionOf(n))
    /\ IF next[n] # None
       THEN /\ current_node' = next[n]
            /\ depth' = depth + 1
            /\ UNCHANGED <<g_pc, g_outcome>>
       ELSE /\ g_pc' = "done"
            /\ g_outcome' = "returned"
            /\ UNCHANGED <<current_node, depth>>

\* an activation of invoke_next_node that returns at once (lines 98-101)
InvokeNextNodeStop ==
    /\ g_pc = "run"
    /\ StopsHere(current_node, depth)
    /\ g_pc' = "done"
    /\ g_outcome' = "returned"
    /\ UNCHANGED <<state, current_node, depth, max_depth, executed>>
    /\ UNCHANGED <<buildVars, update_mechanisms, last_op, ops, avars, xvars, rvars, tvars>>

\* an activation that goes on at any depth, stopping at terminal nodes only
InvokeNextNodeRegularUnbounded ==
    /\ g_pc = "run"
    /\ current_node \notin Range(end_nodes)
    /\ ~EndsWithConditional(current_node)
    /\ depth < MaxRecursion
    /\ RunNode(current_node, executed)
    /\ UNCHANGED max_depth
    /\ UNCHANGED <<buildVars, update_mechanisms, last_op, ops, avars, xvars, rvars, tvars>>

\* an activation of invoke_next_node on a node that is not conditional
InvokeNextNodeRegular ==
    /\ g_pc = "run"
    /\ ~StopsHere(current_node, depth)
    /\ ~EndsWithConditional(current_node)
    /\ depth < MaxRecursion
    /\ RunNode(current_node, executed)
    /\ UNCHANGED max_depth
    /\ UNCHANGED <<buildVars, update_mechanisms, last_op, ops, avars, xvars, rvars, tvars>>

\* an activation of invoke_next_node on a conditional node whose discriminator
\* returns key (the table of a node the caller made is empty: key stands for
\* whatever its action returned)
InvokeNextNodeConditional(key) ==
    /\ g_pc = "run"
    /\ ~StopsHere(current_node, depth)
    /\ EndsWithConditional(current_node)
    /\ depth < MaxRecursion
    /\ IF ResolveTransition(current_node, key) # Absent
       THEN RunNode(ResolveTransition(current_node, key),
                    Append(executed, Discriminated(current_node, key)))
       ELSE /\ executed' = Append(executed, Discriminated(current_node, key))
            /\ g_pc' = "done"
            /\ g_outcome' = "ValueError: Invalid transition"
            /\ UNCHANGED <<state, current_node, depth>>
    /\ UNCHANGED max_depth
    /\ UNCHANGED <<buildVars, update_mechanisms, last_op, ops, avars, xvars, rvars, tvars>>

(***************************************************************************)
(* GraphSpec: traversal of a graph built by a build script                 *)
(***************************************************************************)
ApplyOut(G, n, c) ==
    IF c = None THEN G
    ELSE IF c \in CallerNodes THEN AddEdge(G, n, c)
    ELSE IF c = "own"
    THEN \* m = Node(f"{n.name}_conditional", action); add_node(m); add_edge((n, m))
         AddEdge(AddNode(G, ConditionalName(n)), n, ConditionalName(n))
    ELSE AddConditionalEdges(G, n, TableOf(c))

\* the graph built by: add_node of A, B, T; the edges out of A, B, T;
\* set_start_node (unless start is None); set_end_nodes (unless e is None)
Build(out, start, e) ==
    LET G0 == AddNode(AddNode(AddNode(EmptyGraph, "A"), "B"), "T")
        G1 == ApplyOut(ApplyOut(ApplyOut(G0, "A", out["A"]), "B", out["B"]),
                       "T", out["T"])
        G2 == IF start = None THEN G1 ELSE SetStartNode(G1, start)
    IN  IF e = None THEN G2 ELSE SetEndNodes(G2, EndNodesOf(e))

GraphInit ==
    \* a build script gives a node no successor, an edge to a node, an edge to
    \* a node of its own whose name ends in _conditional, or conditional edges
    \* with a table
    /\ \E out \in [CallerNodes -> {None, "own"} \cup CallerNodes \cup TableNames],
          start \in CallerNodes \cup {None},
          e \in EndNodeChoices \cup {None} :
            GraphIs(Build(out, start, e))
    \* the update_mechanisms passed to Graph(...): none, or append_to_state for
    \* the key messages
    /\ update_mechanisms \in {{}, {"messages"}}
    /\ state = InitialState
    /\ g_pc = "build"
    /\ current_node = None
    /\ depth = 0
    /\ max_depth = NoMaxDepth
    /\ executed = <<>>
    /\ g_outcome = "none"
    /\ last_op = <<"__init__", None, None>>
    /\ ops = 0
    /\ ExtractIdle
    /\ RunnableIdle
    /\ ToolIdle
    /\ AgentUnused

GraphNext ==
    \/ \E md \in {NoMaxDepth} \cup (0..MaxDepth) : GraphInvoke(InitialState, md)
    \/ InvokeNextNodeStop
    \/ InvokeNextNodeRegular
    \/ \E key \in Keys : InvokeNextNodeConditional(key)

GraphSpec == GraphInit /\ [][GraphNext]_bvars

(***************************************************************************)
(* Properties of the graph interpreter                                     *)
(***************************************************************************)
RoutingError == "ValueError: Invalid transition"

ConfigurationErrors ==
    {"ValueError: Node not in graph.", "ValueError: Node already has a next node.",
     "ValueError: Source node not in graph.", "ValueError: Node not in graph",
     "ValueError: Start node not set.", "ValueError: End node not set."}

\* a discriminator evaluation whose result is no key of the node's table
Unrouted(entry) ==
    /\ entry.kind = "discriminator"
    /\ transitions[entry.node][entry.ret] = Absent

\* C3: when a discriminator returns a value that is not a key of its node's
\* transition table, Graph.invoke fails with the routing error: that evaluation
\* is the last thing the traversal does (no target node runs, no default
\* successor is chosen) and the state is as it was.
C3_UnknownDiscriminatorFails ==
    \A i \in 1..Len(executed) :
        Unrouted(executed[i]) =>
            /\ i = Len(executed)
            /\ g_pc = "done"
            /\ g_outcome = RoutingError

C3_Witness ==
    /\ g_outcome = RoutingError
    /\ Len(executed) >= 2
    /\ Unrouted(executed[Len(executed)])

\* C4: add_edge from a node that already has an unconditional successor fails
\* with a configuration error and leaves the successor and the edge list alone.
C4_SecondEdgeFails ==
    [][\A a, b \in CallerNodes :
          (last_op' = <<"add_edge", a, b>> /\ ops' = ops + 1 /\ next[a] # None)
          => /\ build_error' \in ConfigurationErrors
             /\ next' = next
             /\ edges' = edges]_bvars

C4_Witness ==
    /\ last_op[1] = "add_edge"
    /\ build_error = "ValueError: Node already has a next node."
    /\ next[last_op[2]] # None

\* a cycle x -> y -> x of two distinct nodes by unconditional edges, neither
\* terminal, entered at x, of a graph whose start and terminals are set
TwoNodeCycle ==
    \E x, y \in CallerNodes :
        /\ x # y
        /\ next[x] = y /\ next[y] = x
        /\ start_node = x
        /\ end_nodes # NoEndNodes
        /\ x \notin Range(end_nodes) /\ y \notin Range(end_nodes)

\* C5: on a two-node cycle, Graph.invoke with max_depth = N executes exactly N
\* node actions and then returns without error; while it runs it has executed
\* one action per level and can always take its next step.
C5_TwoNodeCycleRunsNTimes ==
    (TwoNodeCycle /\ max_depth # NoMaxDepth /\ g_pc # "build") =>
        /\ g_pc = "run" => /\ Len(executed) = depth
                           /\ depth <= max_depth
                           /\ g_outcome = "none"
                           /\ (StopsHere(current_node, depth) \/ depth < MaxRecursion)
        /\ g_pc = "done" => /\ g_outcome = "returned"
                            /\ Len(executed) = max_depth
        /\ \A i \in 1..Len(executed) : executed[i].kind = "action"

C5_Witness ==
    /\ TwoNodeCycle
    /\ g_pc = "done"
    /\ max_depth = MaxDepth
    /\ Len(executed) = MaxDepth

\* C6: the action of a terminal node is never executed.
C6_TerminalNeverExecuted ==
    \A i \in 1..Len(executed) :
        executed[i].kind = "action" => executed[i].node \notin Range(end_nodes)

\* C17: Graph.invoke on a graph whose start node or whose terminal set was
\* never set fails with a configuration error and executes no node action and
\* no discriminator; the state is the one passed to invoke.
C17_UnconfiguredGraphFails ==
    (g_pc # "build" /\ (start_node = None \/ end_nodes = NoEndNodes)) =>
        /\ g_pc = "done"
        /\ g_outcome = (IF start_node = None THEN "ValueError: Start node not set."
                        ELSE "ValueError: End node not set.")
        /\ g_outcome \in ConfigurationErrors
        /\ executed = <<>>
        /\ state = InitialState

\* invoke failed on a graph with a start node, and edges out of it, but no
\* terminal set
C17_Witness ==
    /\ g_pc = "done"
    /\ start_node # None
    /\ next[start_node] # None
    /\ end_nodes = NoEndNodes
    /\ g_outcome = "ValueError: End node not set."

\* the targets of a target_nodes dictionary
Targets(table) == {table[k] : k \in Keys} \ {Absent}

\* the nodes a build operation refers to
Referenced(op) ==
    CASE op[1] = "add_edge"              -> {op[2], op[3]}
      [] op[1] = "add_conditional_edges" -> {op[2]} \cup Targets(TableOf(op[3]))
      [] op[1] = "set_start_node"        -> {op[2]}
      [] op[1] = "set_end_nodes"         -> Range(EndNodesOf(op[2]))
      [] OTHER                           -> {}

\* C18: a build operation that refers to a node not added to the graph (an
\* endpoint of add_edge, the argument of set_start_node or set_end_nodes, the
\* source or a target of add_conditional_edges) fails with a configuration error.
C18_UnregisteredNodeFails ==
    [][(ops' = ops + 1 /\ \E n \in Referenced(last_op') : n \notin Range(nodes))
          => build_error' \in ConfigurationErrors]_bvars

\* C19: when an action returns a partial update, each key of the update goes
\* through the merge policy registered for it (append for messages) if there
\* is one and is overwritten with the value otherwise; a key not in the update
\* keeps its value; an action returning nothing, a failed routing and a
\* traversal step that runs no action leave the state as it was.
C19_MergeByPolicyOrOverwrite ==
    [][IF /\ Len(executed') > Len(executed)
          /\ executed'[Len(executed')].kind = "action"
       THEN LET upd == ActionOf(executed'[Len(executed')].node)
            IN  /\ state'.messages =
                      (IF upd.isNone \/ "messages" \notin upd.keys THEN state.messages
                       ELSE IF "messages" \in update_mechanisms
                       THEN state.messages \o upd.messages
                       ELSE upd.messages)
                /\ state'.last =
                      (IF upd.isNone \/ "last" \notin upd.keys THEN state.last
                       ELSE upd.last)
       ELSE g_pc = "run" => state' = state]_bvars

\* with the append policy registered, A, B and T ran in this order: both
\* messages were appended, last was overwritten, T returned nothing
C19_Witness ==
    /\ update_mechanisms = {"messages"}
    /\ Len(executed) = 3
    /\ executed[1] = Acted("A")
    /\ executed[2] = Acted("B")
    /\ executed[3] = Acted("T")
    /\ state = [messages |-> <<"A", "B">>, last |-> "B"]

\* the chat graph of examples/basic_chat.py cut down to one human turn: the
\* start node A appends one message, its discriminator table maps "stop" to
\* the terminal T, T has no successor, messages has the append policy and
\* invoke is called without max_depth
StopScenario ==
    /\ start_node = "A"
    /\ next["A"] = "A_conditional"
    /\ transitions["A_conditional"]["stop"] = "T"
    /\ end_nodes = <<"T">>
    /\ next["T"] = None
    /\ update_mechanisms = {"messages"}
    /\ max_depth = NoMaxDepth

\* C20: in the stop scenario, once the discriminator has answered "stop" the
\* traversal has reached the terminal and Graph.invoke has returned; the
\* returned state holds exactly one message, the one the start node appended.
C20_StopReachesTerminal ==
    (/\ StopScenario
     /\ g_pc # "build"
     /\ Len(executed) >= 2
     /\ executed[2] = Discriminated("A_conditional", "stop"))
    => /\ g_pc = "done"
       /\ g_outcome = "returned"
       /\ Len(executed) = 3
       /\ executed[1] = Acted("A")
       /\ executed[3].node = "T"
       /\ Len(state.messages) = 1
       /\ state.messages = ActionOf("A").messages

C20_Witness ==
    /\ StopScenario
    /\ g_pc = "done"
    /\ Len(executed) = 3
    /\ executed[2] = Discriminated("A_conditional", "stop")
    /\ Len(state.messages) = 1

\* C29: after any sequence of add_node, add_edge and add_conditional_edges
\* calls no node has both a next node and a non-empty transition table, and a
\* successful add_conditional_edges(source, ...) leaves the node named
\* "<source>_conditional" registered, owning the table, as source's next node.
C29_NextOrTable ==
    /\ \A n \in AllNodes : ~(next[n] # None /\ transitions[n] # NoTransitions)
    /\ (last_op[1] = "add_conditional_edges" /\ build_error = "none") =>
          LET c == ConditionalName(last_op[2])
          IN  /\ c \in Range(nodes)
              /\ next[last_op[2]] = c
              /\ transitions[c] = TableOf(last_op[3])

\* how many node actions / discriminator evaluations the log holds
Executions(log, kind) == Len(SelectSeq(log, LAMBDA e : e.kind = kind))

\* C30: Graph.invoke with max_depth = N terminates: every activation of
\* invoke_next_node either ends the traversal (by returning, or with a routing
\* error) or goes one level deeper, never deeper than N, where it stops or can
\* take its next step; at most N node actions and at most N discriminator
\* evaluations are executed.
C30_BoundedByMaxDepth ==
    [][(g_pc = "run" /\ max_depth # NoMaxDepth) =>
          /\ \/ g_pc' = "done" /\ g_outcome' \in {"returned", RoutingError}
             \/ /\ g_pc' = "run"
                /\ depth' = depth + 1
                /\ depth' <= max_depth
                /\ StopsHere(current_node', depth') \/ depth' < MaxRecursion
          /\ Executions(executed', "action") <= max_depth
          /\ Executions(executed', "discriminator") <= max_depth]_bvars

\* a cycle through a conditional node, run to the depth limit: one action per
\* level and one discriminator evaluation per level but the first
C30_Witness ==
    /\ g_pc = "done"
    /\ g_outcome = "returned"
    /\ max_depth = MaxDepth
    /\ Executions(executed, "action") = MaxDepth
    /\ Executions(executed, "discriminator") = MaxDepth - 1

\* the current node is neither terminal nor conditional, has no next node and
\* the depth limit does not stop the traversal before it
AtLeaf ==
    /\ g_pc = "run"
    /\ ~StopsHere(current_node, depth)
    /\ ~EndsWithConditional(current_node)
    /\ next[current_node] = None

\* C32: when the current node is neither terminal nor conditional and has no
\* next node, the traversal executes its action, merges its update and ends
\* without error; Graph.invoke returns the state as it is then.
C32_LeafEndsTraversal ==
    [][AtLeaf =>
          /\ executed' = Append(executed, Acted(current_node))
          /\ state' = MergeUpdates(state, ActionOf(current_node))
          /\ g_pc' = "done"
          /\ g_outcome' = "returned"]_bvars

\* A -> B, B without next node and not terminal: B's update is the state returned
C32_Witness ==
    /\ g_pc = "done"
    /\ g_outcome = "returned"
    /\ executed = <<Acted("A"), Acted("B")>>
    /\ next["B"] = None
    /\ "B" \notin Range(end_nodes)
    /\ state.last = "B"

\* C39: when add_conditional_edges fails because the source node already has
\* a next node, the graph is as it was before the call: the same nodes, the
\* same edge list, and every node's next node and transition table unchanged.
C39_FailedConditionalEdgesChangeNothing ==
    [][(last_op'[1] = "add_conditional_edges"
          /\ build_error' = "ValueError: Node already has a next node.") =>
            /\ nodes' = nodes
            /\ edges' = edges
            /\ next' = next
            /\ transitions' = transitions]_bvars

\* add_conditional_edges alone gives a node a transition table, and no table
\* of TableNames is empty
Synthesized(n) == transitions[n] # NoTransitions

\* C38: during traversal a node is handled as a conditional node (its return
\* value is used as a key into its transition table) if and only if
\* add_conditional_edges synthesized it; a node the caller added with add_node
\* is executed as a state-transforming action, whatever its name.
C38_ConditionalIffSynthesized ==
    \A i \in 1..Len(executed) :
        executed[i].kind = "discriminator" <=> Synthesized(executed[i].node)

(***************************************************************************)
(* Text and extract_json (mini/utils.py).  A text is a sequence of         *)
(* characters; a JSON document is one token of the text.                   *)
(***************************************************************************)
NL == "\n"

\* the backtick character
BT == "backtick"

Fence == <<BT, BT, BT>>

FenceJson == Fence \o <<"j", "s", "o", "n">>

\* the tool-call lists of the documents: [name, arguments]; arguments are
\* "ok" (the call returns), "bad_type" (the call raises TypeError) or "crash"
\* (the call raises another exception)
Call(n, a) == [name |-> n, arguments |-> a]

AIMessage(c, calls) == [role |-> "AI", content |-> c, tool_calls |-> calls]

\* the JSON documents of the model, by token: the value json.loads gives
Documents ==
    [ d_valid        |-> AIMessage("valid", <<>>),
      d_invalid      |-> AIMessage("invalid", <<>>),
      d_add          |-> AIMessage("valid", <<Call("add", "ok")>>),
      d_add_subtract |-> AIMessage("valid", <<Call("add", "ok"), Call("subtract", "ok")>>),
      d_unknown      |-> AIMessage("valid", <<Call("search", "ok")>>),
      d_add_badtype  |-> AIMessage("invalid", <<Call("add", "bad_type"), Call("subtract", "ok")>>),
      d_add_crash    |-> AIMessage("valid", <<Call("add", "crash")>>) ]

\* a payload that is not JSON
Garbage == "garbage"

StartsWith(m, pre) == Len(m) >= Len(pre) /\ SubSeq(m, 1, Len(pre)) = pre

EndsWith(m, suf) == Len(m) >= Len(suf) /\ SubSeq(m, Len(m) - Len(suf) + 1, Len(m)) = suf

\* message[k:]
DropFirst(m, k) == SubSeq(m, k + 1, Len(m))

\* message[:-k]
DropLast(m, k) == SubSeq(m, 1, Len(m) - k)

\* lines 20-27 of extract_json
StripLeading(m) ==
    IF StartsWith(m, FenceJson \o <<NL>>) THEN DropFirst(m, 7)
    ELSE IF StartsWith(m, FenceJson) THEN DropFirst(m, 6)
    ELSE IF StartsWith(m, Fence) THEN DropFirst(m, 3)
    ELSE IF StartsWith(m, <<NL>> \o FenceJson) THEN DropLast(m, 7)
    ELSE m

\* lines 28-33 of extract_json
StripTrailing(m) ==
    IF EndsWith(m, Fence \o <<NL>>) THEN DropLast(m, 4)
    ELSE IF EndsWith(m, <<NL>> \o Fence) THEN DropLast(m, 4)
    ELSE IF EndsWith(m, Fence) THEN DropLast(m, 3)
    ELSE m

\* json.loads skips white space around the document
RECURSIVE Trim(_)
Trim(m) ==
    IF m = <<>> THEN m
    ELSE IF Head(m) = NL THEN Trim(Tail(m))
    ELSE IF m[Len(m)] = NL THEN Trim(DropLast(m, 1))
    ELSE m

IsJson(m) == Len(Trim(m)) = 1 /\ Trim(m)[1] \in DOMAIN Documents

\* a text that did not parse comes back as a str: [raw |-> the text]
Str(m) == [raw |-> m]

IsStr(v) == "raw" \in DOMAIN v

extract_json(message) ==
    LET m == StripTrailing(StripLeading(message))
    IN  IF IsJson(m) THEN Documents[Trim(m)[1]] ELSE Str(m)

\* a payload as the model writes it: bare or fenced
Wrap(v, payload) ==
    CASE v = "bare"    -> <<payload>>
      [] v = "json_nl" -> FenceJson \o <<NL, payload, NL>> \o Fence
      [] v = "json"    -> FenceJson \o <<payload>> \o Fence

\* every document bare and in a fence with newlines; one document in a fence
\* without newlines; one text that is not JSON
ModelTexts ==
    {Wrap(v, pl) : v \in {"bare", "json_nl"}, pl \in DOMAIN Documents}
    \cup {Wrap("json", "d_valid"), Wrap("bare", Garbage)}

(***************************************************************************)
(* ExtractSpec: extract_json applied to one text                           *)
(***************************************************************************)
Newline(b) == IF b THEN <<NL>> ELSE <<>>

\* the text written as f says: a newline before the opening fence (lead_nl),
\* the opening fence, a newline after it (open_nl), the payload, a newline
\* before the closing fence (close_nl), the closing fence, a newline after it
Fenced(f) ==
    LET \* the opening fence: none, the plain fence, the fence tagged json
        Opening == CASE f.open = "none"  -> <<>>
                     [] f.open = "plain" -> Fence
                     [] f.open = "json"  -> FenceJson
        Closing == IF f.close = "fence" THEN Fence ELSE <<>>
    IN  Newline(f.lead_nl) \o Opening \o Newline(f.open_nl)
            \o <<f.payload>>
            \o Newline(f.close_nl) \o Closing \o Newline(f.trail_nl)

ExtractInputs ==
    [lead_nl : BOOLEAN, open : {"none", "plain", "json"}, open_nl : BOOLEAN,
     payload : {"d_valid", "d_add", Garbage},
     close_nl : BOOLEAN, close : {"none", "fence"}, trail_nl : BOOLEAN]

ExtractInit ==
    /\ x_input \in ExtractInputs
    /\ x_output = None
    /\ x_pc = "ready"
    /\ RunnableIdle
    /\ ToolIdle
    /\ GraphIs(EmptyGraph)
    /\ TraversalIdle
    /\ last_op = <<"__init__", None, None>>
    /\ ops = 0
    /\ AgentUnused

ExtractJson ==
    /\ x_pc = "ready"
    /\ x_output' = extract_json(Fenced(x_input))
    /\ x_pc' = "done"
    /\ UNCHANGED <<x_input, gvars, last_op, ops, avars, rvars, tvars>>

ExtractNext == ExtractJson

ExtractSpec == ExtractInit /\ [][ExtractNext]_bvars

(***************************************************************************)
(* Runnables (framework/runnable.py, mini/node.py) and the callback        *)
(* manager (framework/tracer.py).  A value is an integer, a mapping or     *)
(* None; the result of an invoke is [ok, out, events, called]: whether it  *)
(* returned, what it returned, the notifications the handlers received in  *)
(* order, and the caller's functions and predicates it called in order.    *)
(***************************************************************************)
IntValue(n) == [t |-> "int", v |-> n]

DictValue(f) == [t |-> "dict", v |-> f]

NoneValue == [t |-> "none"]

\* the functions a caller wraps: what they return on x, or that they raise
Funcs == {"inc", "dbl", "boom"}

Apply(f, x) ==
    CASE f = "inc"  -> [ok |-> TRUE, out |-> IntValue(x.v + 1)]
      [] f = "dbl"  -> [ok |-> TRUE, out |-> IntValue(x.v * 2)]
      [] f = "boom" -> [ok |-> FALSE, out |-> NoneValue]

\* the conditions of a branch
Predicates == {"is_zero", "is_pos", "always"}

Holds(p, x) ==
    CASE p = "is_zero" -> x.v = 0
      [] p = "is_pos"  -> x.v > 0
      [] p = "always"  -> TRUE

\* CallbackManager.on_invoke_start / on_invoke_end: for handler in self.handlers
Notify(cb, type, nm) ==
    IF cb.managed
    THEN [h \in 1..cb.handlers |-> [type |-> type, handler |-> h, name |-> nm]]
    ELSE <<>>

Returned(out, events, called) ==
    [ok |-> TRUE, out |-> out, events |-> events, called |-> called]

Raised(events, called) ==
    [ok |-> FALSE, out |-> NoneValue, events |-> events, called |-> called]

\* an entry of called: a function or a condition of the caller was called
CalledFunc(f) == [what |-> "func", id |-> f]

\* the constructors
RunnableLambda(f) == [kind |-> "lambda", name |-> <<f>>, func |-> f]

Node(n, f) == [kind |-> "node", name |-> <<n>>, action |-> f]

NoKeys == <<None>>

RunnablePassthrough(keys) == [kind |-> "passthrough", name |-> <<"Passthrough">>,
                              passthrough_keys |-> keys]

Pair(p, f) == [condition |-> p, func |-> f]

RunnableBranch(branches) == [kind |-> "branch", name |-> <<"Branch">>,
                             branches |-> branches]

\* name=f"{runnable1.name} | {runnable2.name}"
Chain(r1, r2) == [kind |-> "chain", name |-> r1.name \o <<"|">> \o r2.name,
                  runnable1 |-> r1, runnable2 |-> r2]

\* runnables: a dictionary listing key "a" and then key "b"
BranchNames == <<"a", "b">>

RunnableParallel(ra, rb) == [kind |-> "parallel", name |-> <<"Parallel">>,
                             runnables |-> [a |-> ra, b |-> rb]]

RECURSIVE Run(_, _, _)

\* RunnableLambda.invoke
RunLambda(r, x, cb) ==
    LET a == Apply(r.func, x)
        started == Notify(cb, "start", r.name)
    IN  IF a.ok
        THEN Returned(a.out, started \o Notify(cb, "end", r.name),
                      <<CalledFunc(r.func)>>)
        ELSE Raised(started, <<CalledFunc(r.func)>>)

\* Node.invoke
RunNodeAction(r, x, cb) ==
    LET a == Apply(r.action, x)
        started == Notify(cb, "start", r.name)
    IN  IF a.ok
        THEN Returned(a.out, started \o Notify(cb, "end", r.name),
                      <<CalledFunc(r.action)>>)
        ELSE Raised(started, <<CalledFunc(r.action)>>)

\* a Passthrough that projects a sub-mapping whatever the number of keys
RunPassthroughWrapped(r, x, cb) ==
    LET keys == r.passthrough_keys
        out == IF keys = NoKeys THEN x
               ELSE DictValue([k \in Range(keys) \cap DOMAIN x.v |-> x.v[k]])
    IN  Returned(out, Notify(cb, "start", r.name) \o Notify(cb, "end", r.name), <<>>)

\* RunnablePassthrough.invoke
RunPassthrough(r, x, cb) ==
    LET keys == r.passthrough_keys
        out == IF keys = NoKeys THEN x
               ELSE IF Len(keys) = 1
               THEN (IF keys[1] \in DOMAIN x.v THEN x.v[keys[1]] ELSE NoneValue)
               ELSE DictValue([k \in Range(keys) \cap DOMAIN x.v |-> x.v[k]])
    IN  Returned(out, Notify(cb, "start", r.name) \o Notify(cb, "end", r.name), <<>>)

\* the loop of RunnableBranch.invoke from pair i on
RECURSIVE BranchFrom(_, _, _, _)
BranchFrom(r, x, cb, i) ==
    IF i > Len(r.branches) THEN Returned(NoneValue, <<>>, <<>>)
    ELSE LET pair == r.branches[i]
             tested == <<[what |-> "condition", id |-> pair.condition]>>
         IN  IF Holds(pair.condition, x)
             THEN LET a == Apply(pair.func, x)
                  IN  IF a.ok
                      THEN Returned(a.out, Notify(cb, "end", r.name),
                                    tested \o <<CalledFunc(pair.func)>>)
                      ELSE Raised(<<>>, tested \o <<CalledFunc(pair.func)>>)
             ELSE LET rest == BranchFrom(r, x, cb, i + 1)
                  IN  [rest EXCEPT !.called = tested \o @]

\* a Branch that tries its pairs from the last one to the first
RunBranchReversed(r, x, cb) ==
    LET n == Len(r.branches)
        reversed == [r EXCEPT !.branches = [i \in 1..n |-> r.branches[n + 1 - i]]]
        looped == BranchFrom(reversed, x, cb, 1)
    IN  [looped EXCEPT !.events = Notify(cb, "start", r.name) \o @]

\* RunnableBranch.invoke
RunBranch(r, x, cb) ==
    LET looped == BranchFrom(r, x, cb, 1)
    IN  [looped EXCEPT !.events = Notify(cb, "start", r.name) \o @]

\* a Chain that hands its own input to both steps
RunChainSameInput(r, x, cb) ==
    LET started == Notify(cb, "start", r.name)
        o1 == Run(r.runnable1, x, cb)
        o2 == Run(r.runnable2, x, cb)
    IN  IF ~o1.ok THEN Raised(started \o o1.events, o1.called)
        ELSE IF ~o2.ok
        THEN Raised(started \o o1.events \o o2.events, o1.called \o o2.called)
        ELSE Returned(o2.out,
                      started \o o1.events \o o2.events \o Notify(cb, "end", r.name),
                      o1.called \o o2.called)

\* Chain.invoke
RunChain(r, x, cb) ==
    LET started == Notify(cb, "start", r.name)
        o1 == Run(r.runnable1, x, cb)
        o2 == Run(r.runnable2, o1.out, cb)
    IN  IF ~o1.ok THEN Raised(started \o o1.events, o1.called)
        ELSE IF ~o2.ok
        THEN Raised(started \o o1.events \o o2.events, o1.called \o o2.called)
        ELSE Returned(o2.out,
                      started \o o1.events \o o2.events \o Notify(cb, "end", r.name),
                      o1.called \o o2.called)

\* a Parallel that leaves a failed branch out of the mapping
RunParallelPartial(r, x, cb) ==
    LET started == Notify(cb, "start", r.name)
        oa == Run(r.runnables[BranchNames[1]], x, cb)
        ob == Run(r.runnables[BranchNames[2]], x, cb)
        kept == {k \in Range(BranchNames) :
                    IF k = BranchNames[1] THEN oa.ok ELSE ob.ok}
    IN  Returned(DictValue([k \in kept |->
                              IF k = BranchNames[1] THEN oa.out ELSE ob.out]),
                 started \o oa.events \o ob.events \o Notify(cb, "end", r.name),
                 oa.called \o ob.called)

\* RunnableParallel.invoke: the dictionary comprehension runs the branches in
\* the order of the dictionary; an exception in one ends the comprehension
RunParallel(r, x, cb) ==
    LET started == Notify(cb, "start", r.name)
        oa == Run(r.runnables[BranchNames[1]], x, cb)
        ob == Run(r.runnables[BranchNames[2]], x, cb)
    IN  IF ~oa.ok THEN Raised(started \o oa.events, oa.called)
        ELSE IF ~ob.ok
        THEN Raised(started \o oa.events \o ob.events, oa.called \o ob.called)
        ELSE Returned(DictValue([k \in Range(BranchNames) |->
                                    IF k = BranchNames[1] THEN oa.out ELSE ob.out]),
                      started \o oa.events \o ob.events \o Notify(cb, "end", r.name),
                      oa.called \o ob.called)

\* r.invoke(x, callbacks)
Run(r, x, cb) ==
    CASE r.kind = "lambda"      -> RunLambda(r, x, cb)
      [] r.kind = "node"        -> RunNodeAction(r, x, cb)
      [] r.kind = "passthrough" -> RunPassthrough(r, x, cb)
      [] r.kind = "branch"      -> RunBranch(r, x, cb)
      [] r.kind = "chain"       -> RunChain(r, x, cb)
      [] r.kind = "parallel"    -> RunParallel(r, x, cb)

(***************************************************************************)
(* RunnableSpec: one invoke of one runnable                                *)
(***************************************************************************)
\* largest integer passed to a runnable
MaxInput == 1

\* largest number of handlers of a CallbackManager
MaxHandlers == 2

\* the runnables invoked: every variant, and chains and parallels of them
RunnableChoices ==
    LET Lambdas == {RunnableLambda(f) : f \in Funcs}
        ZeroOrPositive ==
            RunnableBranch(<<Pair("is_zero", "inc"), Pair("is_pos", "dbl")>>)
        IncAndDbl == RunnableParallel(RunnableLambda("inc"), RunnableLambda("dbl"))
    IN  Lambdas
        \cup {Node("N", f) : f \in Funcs}
        \cup {RunnablePassthrough(k) :
                k \in {NoKeys, <<>>, <<"a">>, <<"c">>, <<"a", "b">>, <<"a", "c">>}}
        \cup {RunnableBranch(<<>>)}
        \cup {RunnableBranch(<<Pair(p1, f1), Pair(p2, "dbl")>>) :
                p1 \in Predicates, p2 \in Predicates, f1 \in {"inc", "boom"}}
        \cup {Chain(r1, r2) : r1 \in Lambdas, r2 \in Lambdas}
        \cup {Chain(Chain(RunnableLambda("inc"), RunnableLambda("dbl")),
                    RunnableLambda("inc")),
              Chain(RunnableLambda("inc"), ZeroOrPositive),
              Chain(IncAndDbl, RunnablePassthrough(<<"a">>)),
              Chain(IncAndDbl, RunnablePassthrough(<<"a", "c">>))}
        \cup {RunnableParallel(ra, rb) : ra \in Lambdas, rb \in Lambdas}
        \cup {RunnableParallel(RunnableLambda("inc"), ZeroOrPositive)}

\* the inputs of r: a mapping with keys among a and b (a |-> 1, b |-> 2) for
\* a Passthrough, an integer otherwise
InputsOf(r) ==
    IF r.kind = "passthrough"
    THEN {DictValue([k \in D |-> IF k = "a" THEN IntValue(1) ELSE IntValue(2)]) :
            D \in SUBSET {"a", "b"}}
    ELSE {IntValue(n) : n \in 0..MaxInput}

\* callbacks=None
NoManager == [managed |-> FALSE, handlers |-> 0]

RunnableInit ==
    /\ r_runnable \in RunnableChoices
    /\ r_input \in InputsOf(r_runnable)
    /\ r_callbacks \in {NoManager} \cup
            {[managed |-> TRUE, handlers |-> h] : h \in 0..MaxHandlers}
    /\ r_result = None
    /\ r_pc = "ready"
    /\ ToolIdle
    /\ ExtractIdle
    /\ GraphIs(EmptyGraph)
    /\ TraversalIdle
    /\ last_op = <<"__init__", None, None>>
    /\ ops = 0
    /\ AgentUnused

RunnableInvoke ==
    /\ r_pc = "ready"
    /\ r_result' = Run(r_runnable, r_input, r_callbacks)
    /\ r_pc' = "done"
    /\ UNCHANGED <<r_runnable, r_input, r_callbacks, gvars, last_op, ops, avars, xvars, tvars>>

RunnableNext == RunnableInvoke

RunnableSpec == RunnableInit /\ [][RunnableNext]_bvars

(***************************************************************************)
(* Tool schemas (framework/tool.py)                                        *)
(***************************************************************************)
\* an annotation that is a class
Class(c) == [kind |-> "class", cls |-> c]

PythonTypeBoolAsInteger(python_type) ==
    CASE python_type = "int"      -> "integer"
      [] python_type = "float"    -> "number"
      [] python_type = "str"      -> "string"
      [] python_type = "bool"     -> "integer"
      [] python_type = "list"     -> "array"
      [] python_type = "dict"     -> "object"
      [] python_type = "NoneType" -> "null"
      [] OTHER                    -> "string"

python_type_to_json_type(python_type) ==
    CASE python_type = "int"      -> "integer"
      [] python_type = "float"    -> "number"
      [] python_type = "str"      -> "string"
      [] python_type = "bool"     -> "boolean"
      [] python_type = "list"     -> "array"
      [] python_type = "dict"     -> "object"
      [] python_type = "NoneType" -> "null"
      [] OTHER                    -> "string"

\* create_tool: the schema of a function with the parameters func
create_tool(func) ==
    LET Property(param) ==
            LET param_type == param.annotation
            IN  CASE param_type.kind = "empty" ->
                        [description |-> param.name, type |-> "string"]
                  [] param_type.kind = "class" ->
                        [description |-> param.name,
                         type |-> python_type_to_json_type(param_type.cls)]
                  [] param_type.kind = "union" ->
                        [description |-> param.name,
                         anyOf |-> [i \in 1..Len(SelectSeq(param_type.args,
                                                    LAMBDA t : t # "NoneType")) |->
                                      [type |-> python_type_to_json_type(
                                          SelectSeq(param_type.args,
                                                    LAMBDA t : t # "NoneType")[i])]],
                         nullable |-> "NoneType" \in Range(param_type.args)]
                  [] param_type.kind = "list_of" ->
                        [description |-> param.name, type |-> "array",
                         items |-> [type |-> python_type_to_json_type(param_type.item)]]
                  [] param_type.kind = "dict_of" ->
                        [description |-> param.name, type |-> "object",
                         additionalProperties |-> TRUE]
                  [] OTHER ->
                        [description |-> param.name, type |-> "string"]
        names == [i \in 1..Len(func) |-> func[i].name]
        declared(n) == func[CHOOSE i \in 1..Len(func) : func[i].name = n]
    IN  [name |-> "func",
         arguments |->
            [type |-> "object",
             properties |-> [n \in Range(names) |-> Property(declared(n))],
             required |-> [i \in 1..Len(SelectSeq(func, LAMBDA q : ~q.has_default)) |->
                              SelectSeq(func, LAMBDA q : ~q.has_default)[i].name]]]

(***************************************************************************)
(* ToolSpec: Tool(function) for one function                               *)
(***************************************************************************)
\* largest number of parameters of the function
MaxParams == 2

ToolInit ==
    /\ \E n \in 0..MaxParams :
          t_func \in
            {[i \in 1..n |-> [name |-> <<"b", "a", "d", "c">>[i],
                              annotation |-> f[i].annotation,
                              has_default |-> f[i].has_default]] :
                f \in [1..n ->
                    [annotation :
                        {[kind |-> "empty"], [kind |-> "string"], [kind |-> "dict_of"],
                         [kind |-> "list_of", item |-> "int"],
                         [kind |-> "union", args |-> <<"int", "NoneType">>],
                         [kind |-> "union", args |-> <<"int", "str">>]}
                        \cup {Class(c) : c \in {"int", "float", "str", "bool", "list",
                                                "dict", "NoneType", "Custom"}},
                     has_default : BOOLEAN]]}
    /\ tool_json = None
    /\ t_pc = "ready"
    /\ ExtractIdle
    /\ RunnableIdle
    /\ GraphIs(EmptyGraph)
    /\ TraversalIdle
    /\ last_op = <<"__init__", None, None>>
    /\ ops = 0
    /\ AgentUnused

\* Tool.__init__: self.tool_json = self.create_tool(function)
Tool ==
    /\ t_pc = "ready"
    /\ tool_json' = create_tool(t_func)
    /\ t_pc' = "done"
    /\ UNCHANGED <<t_func, gvars, last_op, ops, avars, xvars, rvars>>

ToolNext == Tool

ToolSpec == ToolInit /\ [][ToolNext]_bvars

(***************************************************************************)
(* Messages (mini/utils.py)                                                *)
(***************************************************************************)
HumanMessage(c) == [role |-> "human", content |-> c]

ToolResponse(n, c) == [name |-> n, content |-> c]

ToolMessage(responses) == [role |-> "tool_response", content |-> responses]

\* f"The tools {not_used_tools} were not used in the conversation."
ToolsCorrection(not_used) ==
    IF not_used = {} THEN "The tools [] were not used in the conversation."
    ELSE "The tools [add] were not used in the conversation."

(***************************************************************************)
(* AgentExecutor.  S is the executor's and invoke's state as a record;     *)
(* the operators below run invoke from one model call to the next.         *)
(***************************************************************************)
\* max_tries = 3
max_tries == 3

\* if depth > 3: return parsed_response
max_correction_depth == 3

BoundTools == <<"add", "subtract">>

TheAgent ==
    [chat_history |-> chat_history, temp_called_tools |-> temp_called_tools,
     a_pc |-> a_pc, frames |-> frames, parsed_response |-> parsed_response,
     num_tries |-> num_tries, a_result |-> a_result, trace |-> trace]

AgentBecomes(S) ==
    /\ chat_history' = S.chat_history
    /\ temp_called_tools' = S.temp_called_tools
    /\ a_pc' = S.a_pc
    /\ frames' = S.frames
    /\ parsed_response' = S.parsed_response
    /\ num_tries' = S.num_tries
    /\ a_result' = S.a_result
    /\ trace' = S.trace

configVars == <<name, tools, tool_choices, structured_output, keeps_history>>

\* except Exception as e: return {f"Error: {str(e)}"}
Fail(S, e) ==
    [S EXCEPT !.a_pc = "done", !.frames = <<>>,
              !.a_result = [kind |-> "error", value |-> e]]

Event(S, e) == [S EXCEPT !.trace = Append(@, e)]

Appended(S, msg) == [S EXCEPT !.chat_history = Append(@, msg)]

\* prompt = self.template.update(chat_history); the model call follows
AwaitModel(S, site) == Event([S EXCEPT !.a_pc = site], "model")

\* is_valid_json(content, structured_output)
IsValid(content) == content = "valid"

\* lines 149-167: prune, reset temp_called_tools, return the content;
\* checked: the structured-output branch was taken
PopCount(n) == n * 2 + 1

Complete(S, checked) ==
    LET accepted == S.parsed_response
        pops == PopCount(S.num_tries)
        pruned ==
            IF checked /\ S.num_tries > 1
            THEN Append(SubSeq(S.chat_history, 1, Len(S.chat_history) - pops), accepted)
            ELSE S.chat_history
    IN  IF checked /\ S.num_tries > 1 /\ Len(S.chat_history) < pops
        THEN Fail([S EXCEPT !.chat_history = <<>>], "IndexError: pop from empty list")
        ELSE [S EXCEPT !.chat_history = pruned,
                       !.temp_called_tools = <<>>,
                       !.a_pc = "done",
                       !.a_result = [kind |-> "content", value |-> accepted.content]]

\* while not validated and num_tries <= max_tries
RetriesLeft(n) == n <= max_tries

\* lines 134-147, from the loop test to the next model call (or past the loop)
ValidationLoop(S, validated) ==
    IF ~validated /\ RetriesLeft(S.num_tries)
    THEN AwaitModel(
            Event(Appended([S EXCEPT !.num_tries = @ + 1],
                           HumanMessage(
                               "The validation with the Pydantic Class did not return True.")),
                  "validation_correction"),
            "call_validate")
    ELSE Complete(S, TRUE)

\* lines 122-132: after _handle_tool_calls returned
AfterToolCalls(S) ==
    IF structured_output = "pydantic"
    THEN ValidationLoop(Event([S EXCEPT !.num_tries = 1], "validate"),
                        IsValid(S.parsed_response.content))
    ELSE Complete(S, FALSE)

\* the outermost _handle_tool_calls returns its own parsed_response to invoke
\* (the value of a recursive call is dropped, line 234)
ReturnFromToolCalls(S) ==
    AfterToolCalls([S EXCEPT !.parsed_response = S.frames[1], !.frames = <<>>])

\* the argument mapping of a call whose arguments are "ok": {"a": 2, "b": 3}
OkArguments == [a |-> 2, b |-> 3]

\* the executables of the bound tools (add_numbers, subtract_numbers)
Executable(n, args) == IF n = "add" THEN args.a + args.b ELSE args.a - args.b

\* execute_tool_calls: the ToolResponse of one call
Dispatch(call) ==
    IF call.name \in Range(tools.names)
    THEN IF call.arguments = "ok"
         THEN ToolResponse(call.name, ToString(Executable(call.name, OkArguments)))
         ELSE ToolResponse(call.name, "Error: bad argument")
    ELSE ToolResponse(call.name, "ERROR: Unknown tool. Try another tool or don't use a tool.")

ExecuteErrorUncaught(calls) ==
    IF tools.isNone THEN "TypeError: NoneType object is not iterable"
    ELSE IF \E i \in 1..Len(calls) :
                calls[i].name \in Range(tools.names) /\ calls[i].arguments # "ok"
    THEN "tool exception"
    ELSE "none"

\* the exception execute_tool_calls raises on these calls, "none" if none
ExecuteError(calls) ==
    IF tools.isNone THEN "TypeError: NoneType object is not iterable"
    ELSE IF \E i \in 1..Len(calls) :
                calls[i].name \in Range(tools.names) /\ calls[i].arguments = "crash"
    THEN "tool exception"
    ELSE "none"

\* an execute_tool_calls that answers the calls of bound tools only
ExecuteKnownCalls(calls) ==
    ToolMessage([i \in 1..Len(SelectSeq(calls, LAMBDA c : c.name \in Range(tools.names)))
                    |-> Dispatch(SelectSeq(calls, LAMBDA c : c.name \in Range(tools.names))[i])])

execute_tool_calls(calls) == ToolMessage([i \in 1..Len(calls) |-> Dispatch(calls[i])])

CalledAfterUnrecorded(called, calls) == called

\* for tool in tool_message["tool_calls"]: if self.tool_choices: append the name
CalledAfter(called, calls) ==
    IF tool_choices # <<>>
    THEN called \o [i \in 1..Len(calls) |-> calls[i].name]
    ELSE called

\* if self.tool_choices and set(self.temp_called_tools) != set(self.tool_choices)
NeedsCorrection(called) ==
    tool_choices # <<>> /\ Range(called) # Range(tool_choices)

DepthNeverExceeded(d) == FALSE

\* if depth > 3: return parsed_response
DepthExceeded(d) == d > max_correction_depth

\* _handle_tool_calls from its entry, or from the loop test, to the next model
\* call; the call running is the last of S.frames, at depth Len(S.frames) - 1
HandleToolCalls(S, entering) ==
    LET d == Len(S.frames) - 1
        p == S.frames[Len(S.frames)]
    IN  IF entering /\ DepthExceeded(d) THEN ReturnFromToolCalls(S)
        ELSE IF IsStr(p) THEN Fail(S, "AttributeError: str object has no attribute get")
        ELSE IF p.tool_calls # <<>>
        THEN IF ExecuteError(p.tool_calls) # "none"
             THEN Fail(S, ExecuteError(p.tool_calls))
             ELSE AwaitModel(
                    Event([Appended(S, execute_tool_calls(p.tool_calls))
                             EXCEPT !.temp_called_tools = CalledAfter(@, p.tool_calls)],
                          "tool_round"),
                    "call_tool")
        ELSE IF NeedsCorrection(S.temp_called_tools)
        THEN AwaitModel(
                Event(Appended(S, HumanMessage(ToolsCorrection(
                          Range(tool_choices) \ Range(S.temp_called_tools)))),
                      "tools_correction"),
                "call_correct")
        ELSE ReturnFromToolCalls(S)

\* parsed_response = extract_json(self.llm_model.invoke(prompt));
\* chat_history.append(parsed_response)
Received(S, text) == Appended(S, extract_json(text))

SetTop(fs, v) == [fs EXCEPT ![Len(fs)] = v]

(***************************************************************************)
(* AgentSpec: one invoke of an executor                                    *)
(***************************************************************************)
\* the history a caller passes to the constructor
OldHistory == <<HumanMessage("earlier query"), AIMessage("earlier answer", <<>>)>>

\* number of tool rounds of one invoke
MaxToolRounds == 1

\* how often event e occurs in the trace tr
Count(tr, e) == Cardinality({i \in 1..Len(tr) : tr[i] = e})

\* the model stops asking for tools after MaxToolRounds rounds, and asks for
\* none in a second invoke
Allowed(text) ==
    LET v == extract_json(text)
    IN  (~IsStr(v) /\ v.tool_calls # <<>>) =>
            (earlier = "none" /\ Count(trace, "tool_round") < MaxToolRounds)

AgentInit ==
    /\ name = "unset"
    /\ tools \in {[isNone |-> TRUE, names |-> <<>>],
                  [isNone |-> FALSE, names |-> BoundTools]}
    /\ tool_choices \in {<<>>, <<"add">>}
    /\ structured_output \in {None, "pydantic"}
    /\ keeps_history \in BOOLEAN
    /\ chat_history \in (IF keeps_history THEN {<<>>, OldHistory} ELSE {<<>>})
    /\ temp_called_tools = <<>>
    /\ a_pc = "idle"
    /\ frames = <<>>
    /\ parsed_response = NoResponse
    /\ num_tries = 0
    /\ callbacks = FALSE
    /\ a_result = NoResult
    /\ history_before = <<>>
    /\ trace = <<>>
    /\ earlier = "none"
    /\ GraphIs(EmptyGraph)
    /\ TraversalIdle
    /\ last_op = <<"__init__", None, None>>
    /\ ops = 0
    /\ ExtractIdle
    /\ RunnableIdle
    /\ ToolIdle

graphSide == <<gvars, last_op, ops, xvars, rvars, tvars>>

\* invoke, lines 88-97, up to the first model call
Invoke(query, cb) ==
    /\ a_pc = "idle"
    /\ callbacks' = cb
    /\ history_before' = (IF keeps_history THEN chat_history ELSE <<>>)
    /\ IF cb /\ name = "unset"
       THEN \* callbacks.on_invoke_start(self.name, ...) outside the try block
            AgentBecomes([TheAgent EXCEPT
                !.a_pc = "done",
                !.a_result = [kind |-> "raised",
                              value |-> "AttributeError: AgentExecutor object has no attribute name"]])
       ELSE AgentBecomes(AwaitModel(
                Appended([TheAgent EXCEPT
                            !.chat_history = IF keeps_history THEN @ ELSE <<>>,
                            !.num_tries = 0, !.trace = <<>>],
                         HumanMessage(query)),
                "call_first"))
    /\ UNCHANGED <<configVars, earlier, graphSide>>

\* lines 98-120: the first response arrives, _handle_tool_calls is entered
FirstResponse(text) ==
    /\ a_pc = "call_first"
    /\ Allowed(text)
    /\ LET S == Received(TheAgent, text)
       IN  AgentBecomes(HandleToolCalls(
               [S EXCEPT !.frames = <<extract_json(text)>>], TRUE))
    /\ UNCHANGED <<configVars, callbacks, history_before, earlier, graphSide>>

\* lines 204-206 and the loop again: the response to a tool round arrives
ToolRoundResponse(text) ==
    /\ a_pc = "call_tool"
    /\ Allowed(text)
    /\ LET S == Received(TheAgent, text)
       IN  AgentBecomes(HandleToolCalls(
               [S EXCEPT !.frames = SetTop(@, extract_json(text))], FALSE))
    /\ UNCHANGED <<configVars, callbacks, history_before, earlier, graphSide>>

\* lines 230-234: the response to a mandatory-tool correction arrives and
\* _handle_tool_calls calls itself with depth + 1
CorrectionResponse(text) ==
    /\ a_pc = "call_correct"
    /\ Allowed(text)
    /\ LET S == Received(TheAgent, text)
           v == extract_json(text)
       IN  AgentBecomes(HandleToolCalls(
               [S EXCEPT !.frames = Append(SetTop(@, v), v)], TRUE))
    /\ UNCHANGED <<configVars, callbacks, history_before, earlier, graphSide>>

\* lines 142-147 and the loop again: the response to a validation correction
ValidationResponse(text) ==
    /\ a_pc = "call_validate"
    /\ Allowed(text)
    /\ LET v == extract_json(text)
           S == [Received(TheAgent, text) EXCEPT !.parsed_response = v]
       IN  AgentBecomes(
               IF IsStr(v)
               THEN Fail(S, "TypeError: string indices must be integers")
               ELSE ValidationLoop(Event(S, "validate"), IsValid(v.content)))
    /\ UNCHANGED <<configVars, callbacks, history_before, earlier, graphSide>>

AgentNext ==
    \/ \E q \in {"query"}, cb \in BOOLEAN : Invoke(q, cb)
    \/ \E text \in ModelTexts : FirstResponse(text)
    \/ \E text \in ModelTexts : ToolRoundResponse(text)
    \/ \E text \in ModelTexts : CorrectionResponse(text)
    \/ \E text \in ModelTexts : ValidationResponse(text)

allvars == <<avars, graphSide>>

AgentSpec == AgentInit /\ [][AgentNext]_allvars

(***************************************************************************)
(* LifecycleSpec: an executor without a history list is reconfigured       *)
(* before its first invoke and invoked a second time                       *)
(***************************************************************************)
\* self.tools = []; self.update_template()
reset_tools ==
    /\ a_pc = "idle"
    /\ tools' = [isNone |-> FALSE, names |-> <<>>]
    /\ UNCHANGED <<name, tool_choices, structured_output, keeps_history>>
    /\ UNCHANGED <<chat_history, temp_called_tools, a_pc, frames, parsed_response,
                   num_tries, callbacks, a_result, history_before, trace, earlier>>
    /\ UNCHANGED graphSide

\* self.system = None; self.tools = []; self.structured_output = None
reset_template ==
    /\ a_pc = "idle"
    /\ tools' = [isNone |-> FALSE, names |-> <<>>]
    /\ structured_output' = None
    /\ UNCHANGED <<name, tool_choices, keeps_history>>
    /\ UNCHANGED <<chat_history, temp_called_tools, a_pc, frames, parsed_response,
                   num_tries, callbacks, a_result, history_before, trace, earlier>>
    /\ UNCHANGED graphSide

\* bind_tools([add, subtract], choices); tool_choices=None is the empty list
bind_tools(choices) ==
    /\ a_pc = "idle"
    /\ tools' = [isNone |-> FALSE, names |-> BoundTools]
    /\ tool_choices' = choices
    /\ UNCHANGED <<name, structured_output, keeps_history>>
    /\ UNCHANGED <<chat_history, temp_called_tools, a_pc, frames, parsed_response,
                   num_tries, callbacks, a_result, history_before, trace, earlier>>
    /\ UNCHANGED graphSide

\* a second invoke, without callbacks, after the first one ended with an
\* error result: lines 88-97 with fresh locals; what the executor keeps is as
\* the first invoke left it (after a content, line 160 has reset it)
Reinvoke(query) ==
    /\ a_pc = "done"
    /\ a_result.kind = "error"
    /\ earlier = "none"
    /\ earlier' = a_result.kind
    /\ callbacks' = FALSE
    /\ history_before' = <<>>
    /\ AgentBecomes(AwaitModel(
            Appended([TheAgent EXCEPT
                        !.chat_history = <<>>, !.frames = <<>>,
                        !.parsed_response = NoResponse, !.a_result = NoResult,
                        !.num_tries = 0, !.trace = <<>>],
                     HumanMessage(query)),
            "call_first"))
    /\ UNCHANGED <<configVars, graphSide>>

LifecycleInit == AgentInit /\ ~keeps_history

LifecycleNext ==
    \/ AgentNext
    \/ reset_tools
    \/ reset_template
    \/ \E choices \in {<<>>, <<"add">>} : bind_tools(choices)
    \/ \E q \in {"query"} : Reinvoke(q)

LifecycleSpec == LifecycleInit /\ [][LifecycleNext]_allvars

(***************************************************************************)
(* Properties of the agent loop                                            *)
(***************************************************************************)
\* the messages this invoke appended and that are still in the history
AppendedNow == SubSeq(chat_history, Len(history_before) + 1, Len(chat_history))

\* C1: invoke never raises to its caller: it ends by returning a content or
\* an error-result value, with or without a CallbackManager.
C1_InvokeNeverRaises ==
    a_pc = "done" => a_result.kind \in {"content", "error"}

\* C2: when the model's text is not valid JSON after fence stripping, the raw
\* text is the content of the turn and invoke returns it, not an error result.
C2_NonJsonDegrades ==
    (a_pc = "done" /\ AppendedNow # <<>> /\ IsStr(chat_history[Len(chat_history)]))
    => /\ a_result.kind = "content"
       /\ a_result.value = chat_history[Len(chat_history)].raw

\* C7: one invoke makes at most 3 validation attempts, the first one counted.
C7_AtMostThreeValidations ==
    Count(trace, "validate") <= max_tries

\* C8: when validation succeeds after more than one attempt, what this invoke
\* leaves in the history is the original human turn and then the accepted Message.
C8_PruneKeepsHumanAndAccepted ==
    (a_pc = "done" /\ a_result.kind = "content" /\ structured_output = "pydantic"
        /\ num_tries > 1 /\ IsValid(parsed_response.content))
    => /\ Len(chat_history) = Len(history_before) + 2
       /\ SubSeq(chat_history, 1, Len(history_before)) = history_before
       /\ AppendedNow = <<HumanMessage("query"), parsed_response>>

\* C9: when every validation attempt failed, invoke returns the content of the
\* last, still invalid, response, whatever the history it started from.
C9_ExhaustedReturnsLast ==
    (a_pc = "done" /\ structured_output = "pydantic" /\ num_tries > max_tries
        /\ ~IsStr(parsed_response) /\ ~IsValid(parsed_response.content))
    => a_result = [kind |-> "content", value |-> parsed_response.content]

\* C10: a mandatory-tool correction is pending only if a required tool is
\* missing from the tools invoked in this exchange (calling further tools that
\* are not required does not trigger one).
C10_CorrectionOnlyWhenMissing ==
    a_pc = "call_correct" =>
        \E t \in Range(tool_choices) : t \notin Range(temp_called_tools)

\* the model calls one invoke can make: the first, one per tool round, one per
\* correction (depths 0..max_correction_depth), one per validation retry
MaxModelCalls == 1 + MaxToolRounds + (max_correction_depth + 1) + max_tries

C12_AtMostThreeCorrections ==
    Count(trace, "tools_correction") <= max_correction_depth

\* the model call invoke waits in is followed by the tool-call loop of
\* _handle_tool_calls (not by the depth check's early return, nor by validation)
BeforeToolLoop ==
    \/ a_pc \in {"call_first", "call_tool"}
    \/ a_pc = "call_correct" /\ ~DepthExceeded(Len(frames))

\* the name of the call is not the name of a bound tool
UnknownTool(call) == tools.isNone \/ call.name \notin Range(tools.names)

UnknownToolError == "ERROR: Unknown tool. Try another tool or don't use a tool."

\* C13: when a response received before the tool-call loop holds a call whose
\* name is not in the bound tool set (also when no tools are bound), the next
\* message of the history is a tool message with an explicit error ToolResponse
\* for that call, and invoke goes on to its next model call.
C13_UnknownToolAnswered ==
    [][(BeforeToolLoop /\ Len(chat_history') > Len(chat_history)) =>
          LET v == chat_history'[Len(chat_history) + 1]
          IN  (/\ ~IsStr(v)
               /\ v.role = "AI"
               /\ \E j \in 1..Len(v.tool_calls) : UnknownTool(v.tool_calls[j]))
              => /\ a_pc' = "call_tool"
                 /\ Len(chat_history') = Len(chat_history) + 2
                 /\ LET t == chat_history'[Len(chat_history) + 2]
                    IN  /\ t.role = "tool_response"
                        /\ \A j \in 1..Len(v.tool_calls) :
                              UnknownTool(v.tool_calls[j]) =>
                                 t.content[j] = ToolResponse(v.tool_calls[j].name,
                                                             UnknownToolError)]_allvars

\* the call is to a bound tool and fails with a TypeError or a ValueError
Mismatched(call) == ~UnknownTool(call) /\ call.arguments = "bad_type"

\* the call is to a bound tool and fails with an exception of another class
Crashing(call) == ~UnknownTool(call) /\ call.arguments = "crash"

\* C14: when a dispatched response holds a call to a known tool that fails with
\* a type or value mismatch (and no call failing otherwise), execute_tool_calls
\* does not raise: the tool message appended next has one ToolResponse per call,
\* in order, an error response with the tool's name for the failing call and
\* the responses of the other calls, and invoke goes on to its next model call.
C14_MismatchBecomesResponse ==
    [][(BeforeToolLoop /\ Len(chat_history') > Len(chat_history)) =>
          LET v == chat_history'[Len(chat_history) + 1]
          IN  (/\ ~IsStr(v)
               /\ v.role = "AI"
               /\ \E j \in 1..Len(v.tool_calls) : Mismatched(v.tool_calls[j])
               /\ \A j \in 1..Len(v.tool_calls) : ~Crashing(v.tool_calls[j]))
              => /\ a_pc' = "call_tool"
                 /\ Len(chat_history') = Len(chat_history) + 2
                 /\ LET t == chat_history'[Len(chat_history) + 2]
                    IN  /\ t.role = "tool_response"
                        /\ Len(t.content) = Len(v.tool_calls)
                        /\ \A j \in 1..Len(v.tool_calls) :
                              /\ t.content[j].name = v.tool_calls[j].name
                              /\ Mismatched(v.tool_calls[j]) =>
                                    t.content[j].content = "Error: bad argument"
                              /\ (~UnknownTool(v.tool_calls[j])
                                    /\ v.tool_calls[j].arguments = "ok") =>
                                    t.content[j].content =
                                       ToString(Executable(v.tool_calls[j].name,
                                                           OkArguments))]_allvars

\* a tool message answers a failing call to add and then a successful call to
\* subtract of the same response
C14_Witness ==
    \E i \in 1..Len(chat_history) :
        /\ ~IsStr(chat_history[i])
        /\ chat_history[i].role = "tool_response"
        /\ chat_history[i].content =
              <<ToolResponse("add", "Error: bad argument"),
                ToolResponse("subtract", "-1")>>

\* C21: an executor constructed with a history list appends the turns of an
\* invoke to that list, after the turns that were in it (those of earlier
\* invokes), which stay in place; an executor constructed without one starts
\* every invoke from an empty list, whose first message is the human turn.
C21_HistoryOwnership ==
    (a_pc # "idle" /\ a_result.kind # "raised") =>
        IF keeps_history
        THEN /\ Len(chat_history) > Len(history_before)
             /\ SubSeq(chat_history, 1, Len(history_before)) = history_before
             /\ chat_history[Len(history_before) + 1] = HumanMessage("query")
        ELSE /\ history_before = <<>>
             /\ a_pc # "done" => chat_history[1] = HumanMessage("query")

\* tools add and subtract bound, add required, no structured output; the
\* first response asks for add(a=2, b=3) and the next one asks for no tool
AddScenario ==
    /\ ~tools.isNone
    /\ tool_choices = <<"add">>
    /\ structured_output = None
    /\ a_pc = "done"
    /\ Len(AppendedNow) >= 4
    /\ AppendedNow[2] = AIMessage("valid", <<Call("add", "ok")>>)
    /\ ~IsStr(AppendedNow[4])
    /\ AppendedNow[4].role = "AI"
    /\ AppendedNow[4].tool_calls = <<>>

\* C22: in the add scenario, add is invoked once, the tool message appended
\* after the first response holds one ToolResponse named add with content "5",
\* no corrective turn is appended and invoke returns the content of the next
\* response of the model.
C22_AddThenAnswer ==
    AddScenario =>
        /\ AppendedNow = <<HumanMessage("query"),
                           AIMessage("valid", <<Call("add", "ok")>>),
                           ToolMessage(<<ToolResponse("add", "5")>>),
                           AppendedNow[4]>>
        /\ Count(trace, "tool_round") = 1
        /\ Count(trace, "tools_correction") = 0
        /\ a_result = [kind |-> "content", value |-> AppendedNow[4].content]

C22_Witness ==
    /\ AddScenario
    /\ keeps_history
    /\ history_before # <<>>
    /\ chat_history[Len(chat_history) - 1] = ToolMessage(<<ToolResponse("add", "5")>>)
    /\ a_result.kind = "content"

\* C24: a CallbackManager is transparent to AgentExecutor.invoke: with or
\* without one, the call appends the query to the history and goes on to the
\* first model call.
C24_InstrumentationTransparent ==
    [][(a_pc = "idle" /\ a_pc' # "idle") =>
          /\ a_pc' = "call_first"
          /\ Len(chat_history') = Len(history_before') + 1
          /\ chat_history'[Len(chat_history')].role = "human"]_allvars

\* the role of a history entry; a text that did not parse has none
RoleOf(m) == IF IsStr(m) THEN "str" ELSE m.role

\* the tool-result message t answers the calls of the model message m
Answers(t, m) ==
    /\ RoleOf(m) = "AI"
    /\ m.tool_calls # <<>>
    /\ RoleOf(t) = "tool_response"
    /\ Len(t.content) = Len(m.tool_calls)
    /\ \A i \in 1..Len(m.tool_calls) : t.content[i].name = m.tool_calls[i].name

\* C31: a round of the tool-call loop appends, after the model message that
\* asked for tools, one tool-result message with one ToolResponse per call, in
\* call order and with the calls' names; the response of the model call that
\* follows is appended next, once, and nothing the step appends after it is
\* a model message.
C31_ToolRoundAppends ==
    [][/\ a_pc' = "call_tool" =>
            LET n == Len(chat_history')
            IN  /\ n = Len(chat_history) + 2
                /\ SubSeq(chat_history', 1, n - 2) = chat_history
                /\ Answers(chat_history'[n], chat_history'[n - 1])
       /\ a_pc = "call_tool" =>
            LET n == Len(chat_history)
            IN  /\ RoleOf(chat_history[n]) = "tool_response"
                /\ Len(chat_history') > n
                /\ SubSeq(chat_history', 1, n) = chat_history
                /\ RoleOf(chat_history'[n + 1]) \in {"AI", "str"}
                /\ (a_pc' # "call_tool") =>
                      \A i \in (n + 2)..Len(chat_history') :
                          RoleOf(chat_history'[i]) # "AI"]_allvars

\* a turn with a round of two calls, the first answered by an error text:
\* the tool-result message answers both, the model message follows
C31_Witness ==
    /\ a_pc = "done"
    /\ a_result.kind = "content"
    /\ \E i \in 2..(Len(chat_history) - 1) :
          /\ Answers(chat_history[i], chat_history[i - 1])
          /\ Len(chat_history[i].content) = 2
          /\ chat_history[i].content[1].content = "Error: bad argument"
          /\ RoleOf(chat_history[i + 1]) = "AI"

\* C34: when invoke returns a content, the message it accepted is the last
\* entry of the history and the value returned is that entry's content, also
\* after mandatory-tool corrections.
C34_ReturnsLastMessage ==
    (a_pc = "done" /\ a_result.kind = "content") =>
        /\ chat_history # <<>>
        /\ chat_history[Len(chat_history)] = parsed_response
        /\ a_result.value = parsed_response.content

\* C35: after an invoke that retried the validation, every message that was
\* in the caller's history before the invoke is still there, at its position.
C35_PruningKeepsEarlierMessages ==
    (a_pc = "done" /\ keeps_history /\ num_tries > 1) =>
        \A i \in 1..Len(history_before) :
            /\ i <= Len(chat_history)
            /\ chat_history[i] = history_before[i]

\* C36: when an invoke starts (its first call of the model is pending), the
\* record of invoked tool names is empty, also when the earlier invoke of the
\* executor ended with an error result.
C36_InvokeStartsWithNoCalledTools ==
    a_pc = "call_first" => temp_called_tools = <<>>

\* C37: one invoke makes a bounded number of model calls whatever the model
\* answers, also when every Message of the model carries tool_calls: the tool
\* loop ends by itself. Once the model has asked for tools in every round the
\* exploration follows, one more Message with tool_calls makes the handler
\* leave the loop instead of running the tools and calling the model again.
C37_ToolLoopEnds ==
    (a_pc = "call_tool" /\ Count(trace, "tool_round") >= MaxToolRounds) =>
        \A text \in ModelTexts :
            HandleToolCalls([Received(TheAgent, text) EXCEPT
                                !.frames = SetTop(@, extract_json(text))],
                            FALSE).a_pc # "call_tool"

\* reset_tools or reset_template was the last call to set self.tools: they
\* alone leave the empty list there
ToolsWereReset == ~tools.isNone /\ tools.names = <<>>

\* C40: after reset_tools or reset_template, and until bind_tools is called
\* again, the required-tool set is empty and no invoke appends a mandatory-tool
\* corrective turn.
C40_ResetClearsRequiredTools ==
    ToolsWereReset =>
        /\ tool_choices = <<>>
        /\ Count(trace, "tools_correction") = 0

(***************************************************************************)
(* Properties of the runnables                                             *)
(***************************************************************************)
\* the notifications handler h received during the invoke
HandlerEvents(h) == SelectSeq(r_result.events, LAMBDA e : e.handler = h)

\* every end closes the innermost open start and carries its name
RECURSIVE Nested(_, _)
Nested(events, open) ==
    IF events = <<>> THEN open = <<>>
    ELSE IF Head(events).type = "start"
    THEN Nested(Tail(events), <<Head(events).name>> \o open)
    ELSE /\ open # <<>>
         /\ Head(open) = Head(events).name
         /\ Nested(Tail(events), Tail(open))

Completed == r_pc = "done" /\ r_result.ok

\* C23: when an invoke under a CallbackManager completes without failure,
\* every handler has received the start of this invocation first and its
\* matching end last, and in between every nested invocation's end comes
\* before the end of the one that encloses it.
C23_StartAndEndPaired ==
    (Completed /\ r_callbacks.managed) =>
        \A h \in 1..r_callbacks.handlers :
            LET ev == HandlerEvents(h)
            IN  /\ ev # <<>>
                /\ Head(ev) = [type |-> "start", handler |-> h, name |-> r_runnable.name]
                /\ ev[Len(ev)] = [type |-> "end", handler |-> h, name |-> r_runnable.name]
                /\ Nested(ev, <<>>)

\* a Chain of two RunnableLambdas was invoked and both steps returned
LambdaChain ==
    /\ r_pc = "done"
    /\ r_runnable.kind = "chain"
    /\ r_runnable.runnable1.kind = "lambda"
    /\ r_runnable.runnable2.kind = "lambda"
    /\ Apply(r_runnable.runnable1.func, r_input).ok
    /\ Apply(r_runnable.runnable2.func,
             Apply(r_runnable.runnable1.func, r_input).out).ok

\* what one handler is told around the two steps of a Chain
ChainOrder(h) ==
    LET E(type, nm) == [type |-> type, handler |-> h, name |-> nm]
    IN  <<E("start", r_runnable.name),
          E("start", r_runnable.runnable1.name), E("end", r_runnable.runnable1.name),
          E("start", r_runnable.runnable2.name), E("end", r_runnable.runnable2.name),
          E("end", r_runnable.name)>>

\* C25: Chain(r1, r2).invoke(x) returns r2 applied to the output of r1 on x,
\* and each handler is notified in the order chain start, r1 start, r1 end,
\* r2 start, r2 end, chain end.
C25_ChainComposes ==
    LambdaChain =>
        /\ r_result.ok
        /\ r_result.out = Apply(r_runnable.runnable2.func,
                                Apply(r_runnable.runnable1.func, r_input).out).out
        /\ r_result.called = <<CalledFunc(r_runnable.runnable1.func),
                               CalledFunc(r_runnable.runnable2.func)>>
        /\ \A h \in 1..r_callbacks.handlers : HandlerEvents(h) = ChainOrder(h)

\* inc then dbl on 1 gives 4 (dbl alone gives 2), traced by two handlers
C25_Witness ==
    /\ LambdaChain
    /\ r_runnable.runnable1.func = "inc"
    /\ r_runnable.runnable2.func = "dbl"
    /\ r_input = IntValue(1)
    /\ r_callbacks.handlers = 2
    /\ r_result.out = IntValue(4)

\* a Parallel was invoked
ParallelDone == r_pc = "done" /\ r_runnable.kind = "parallel"

\* the branch named k, invoked on its own on the same input
BranchAlone(k) == Run(r_runnable.runnables[k], r_input, NoManager)

\* C26: Parallel.invoke either returns a mapping whose keys are exactly the
\* branch names, each mapped to its branch's output on the input, or fails
\* because a branch failed; it fails whenever a branch fails.
C26_ParallelAllOrNothing ==
    ParallelDone =>
        IF \A k \in DOMAIN r_runnable.runnables : BranchAlone(k).ok
        THEN /\ r_result.ok
             /\ r_result.out.t = "dict"
             /\ DOMAIN r_result.out.v = DOMAIN r_runnable.runnables
             /\ \A k \in DOMAIN r_runnable.runnables :
                    r_result.out.v[k] = BranchAlone(k).out
        ELSE ~r_result.ok

\* the second branch fails after the first one returned: no mapping comes back
C26_Witness ==
    /\ ParallelDone
    /\ r_runnable.runnables.a = RunnableLambda("inc")
    /\ r_runnable.runnables.b = RunnableLambda("boom")
    /\ ~r_result.ok
    /\ r_result.called = <<CalledFunc("inc"), CalledFunc("boom")>>

\* a Branch was invoked
BranchDone == r_pc = "done" /\ r_runnable.kind = "branch"

\* the pairs whose predicate holds on the input
Matching == {i \in 1..Len(r_runnable.branches) :
                Holds(r_runnable.branches[i].condition, r_input)}

FirstMatching == CHOOSE i \in Matching : \A j \in Matching : i <= j

\* the handlers the invoke executed, in order
HandlersCalled == SelectSeq(r_result.called, LAMBDA c : c.what = "func")

\* C27: Branch.invoke executes only the handler of the first pair, in list
\* order, whose predicate holds on the input, and returns its result; when no
\* predicate holds it executes no handler and returns None without raising.
C27_FirstMatchOnly ==
    BranchDone =>
        IF Matching = {}
        THEN /\ r_result.ok
             /\ r_result.out = NoneValue
             /\ HandlersCalled = <<>>
        ELSE LET handler == r_runnable.branches[FirstMatching].func
             IN  /\ HandlersCalled = <<CalledFunc(handler)>>
                 /\ r_result.ok = Apply(handler, r_input).ok
                 /\ r_result.out = Apply(handler, r_input).out

\* both predicates hold on 0: inc is executed and 1 returned, dbl is not
C27_Witness ==
    /\ BranchDone
    /\ r_runnable.branches = <<Pair("is_zero", "inc"), Pair("always", "dbl")>>
    /\ r_input = IntValue(0)
    /\ r_result.out = IntValue(1)
    /\ HandlersCalled = <<CalledFunc("inc")>>

\* a Passthrough was invoked
PassthroughDone == r_pc = "done" /\ r_runnable.kind = "passthrough"

\* C28: Passthrough.invoke returns the input unchanged when passthrough_keys
\* is None, the value stored under the key when exactly one key is configured
\* (and present), and otherwise the sub-mapping of exactly the configured keys
\* that are present in the input.
C28_PassthroughProjects ==
    PassthroughDone =>
        LET keys == r_runnable.passthrough_keys
        IN  /\ r_result.ok
            /\ IF keys = NoKeys THEN r_result.out = r_input
               ELSE IF Len(keys) = 1
               THEN keys[1] \in DOMAIN r_input.v => r_result.out = r_input.v[keys[1]]
               ELSE /\ r_result.out.t = "dict"
                    /\ DOMAIN r_result.out.v = {k \in DOMAIN r_input.v : k \in Range(keys)}
                    /\ \A k \in DOMAIN r_result.out.v : r_result.out.v[k] = r_input.v[k]

\* keys a and c on the mapping {a: 1, b: 2}: only a comes back
C28_Witness ==
    /\ PassthroughDone
    /\ r_runnable.passthrough_keys = <<"a", "c">>
    /\ r_input = DictValue([k \in {"a", "b"} |-> IF k = "a" THEN IntValue(1) ELSE IntValue(2)])
    /\ r_result.out = DictValue([k \in {"a"} |-> IntValue(1)])

(***************************************************************************)
(* Properties of the tool schema                                           *)
(***************************************************************************)
\* the semantic type the schema gives the parameter named n
TypeOf(n) == tool_json.arguments.properties[n].type

\* C33: the schema lists in required exactly the parameters declared without a
\* default, in declaration order; a parameter annotated int, float, str, bool,
\* list or dict has the type integer, number, string, boolean, array or
\* object, and one without annotation or annotated with an unknown class the
\* type string.
C33_SchemaFromSignature ==
    t_pc = "done" =>
        /\ LET required == tool_json.arguments.required
               Position(n) == CHOOSE i \in 1..Len(t_func) : t_func[i].name = n
           IN  /\ Range(required) =
                     {t_func[i].name : i \in {k \in 1..Len(t_func) : ~t_func[k].has_default}}
               /\ \A j, k \in 1..Len(required) :
                     j < k => Position(required[j]) < Position(required[k])
        /\ DOMAIN tool_json.arguments.properties = {t_func[i].name : i \in 1..Len(t_func)}
        /\ \A i \in 1..Len(t_func) :
              LET an == t_func[i].annotation
                  n == t_func[i].name
              IN  /\ an = Class("int") => TypeOf(n) = "integer"
                  /\ an = Class("float") => TypeOf(n) = "number"
                  /\ an = Class("str") => TypeOf(n) = "string"
                  /\ an = Class("bool") => TypeOf(n) = "boolean"
                  /\ an = Class("list") => TypeOf(n) = "array"
                  /\ an = Class("dict") => TypeOf(n) = "object"
                  /\ an \in {[kind |-> "empty"], Class("Custom")} => TypeOf(n) = "string"

\* def func(b: bool = True, *, a): only a is required, b is a boolean and a
\* a string
C33_Witness ==
    /\ t_pc = "done"
    /\ Len(t_func) = 2
    /\ t_func[1].annotation = Class("bool") /\ t_func[1].has_default
    /\ t_func[2].annotation = [kind |-> "empty"] /\ ~t_func[2].has_default
    /\ tool_json.arguments.required = <<"a">>
    /\ TypeOf("b") = "boolean"
    /\ TypeOf("a") = "string"

(***************************************************************************)
(* Properties of extract_json                                              *)
(***************************************************************************)
\* C15: extract_json applied to a JSON document written in any fence variant
\* (tagged, plain or no fence; with or without a newline before or after the
\* opening fence and around the closing fence) returns the document's value.
C15_FencedJsonParses ==
    (x_pc = "done" /\ x_input.payload \in DOMAIN Documents)
    => x_output = Documents[x_input.payload]

\* C16: extract_json applied to a text whose payload is not JSON returns the
\* text it was given, fence markers included, in every fence variant.
C16_MalformedReturnsOriginal ==
    (x_pc = "done" /\ x_input.payload = Garbage)
    => x_output = Str(Fenced(x_input))

====
